---- MODULE Spec2Model ----
(***************************************************************************)
(* A model of the todoapp request handlers (src/todoapp/views.py) over the *)
(* Task model (src/todoapp/models.py).  One browser client issues HTTP     *)
(* requests; each action is one whole request/response cycle, including    *)
(* the LoginRequiredMixin gate that runs in dispatch() before the handler. *)
(* The relational store is the two tables users and tasks; rows of tasks   *)
(* are kept in primary-key order, the order in which the store returns     *)
(* them for a query without ORDER BY.  Password policy validators are      *)
(* settings of the project and are not modelled.                           *)
(***************************************************************************)
EXTENDS Integers, Sequences, FiniteSets, TLC

\* Bounds of the model.
MaxTasks == 2
MaxUsers == 2

\* request.user of a request without a session (AnonymousUser): no user id.
AnonymousUser == 0

Absent == "<absent>"
None == "<None>"

Clients == {"c1"}
Usernames == {"alice", "bob"}
Passwords == {"pw1", "pw2"}

PRIORITY_CHOICES == {"High", "Medium", "Low"}
STATUS_CHOICES == {"Pending", "Completed"}
StatusDefault == "Incomplete"
PriorityDefault == "Medium"

VARIABLES
  users,    \* auth_user rows, in id order: [id, username, password]
  tasks,    \* todoapp_task rows, in primary-key order
  nextId,   \* next value of the AutoField primary key of Task
  now,      \* logical clock read by auto_now_add
  session,  \* client -> id of the user its session is bound to, or AnonymousUser
  deleted,  \* history: primary keys removed by a delete
  req,      \* the request handled by the last step
  resp      \* the response to it

vars == <<users, tasks, nextId, now, session, deleted, req, resp>>

----------------------------------------------------------------------------
\* Inputs

\* POST bodies of the task form.  user is an owner value a client may add to
\* the body; it is not one of the form's fields.
TaskForms ==
  { [title |-> "t1", description |-> "", status |-> "Pending",
     priority |-> "High", user |-> 1],
    [title |-> "t2", description |-> "d1", status |-> "Completed",
     priority |-> "Low", user |-> 2],
    [title |-> "", description |-> "d1", status |-> "Pending",
     priority |-> "Low", user |-> AnonymousUser],
    [title |-> "t1", description |-> "", status |-> "Incomplete",
     priority |-> "Medium", user |-> AnonymousUser] }

\* Keyword arguments of Task.objects.create as the tests call it.
CreateKwargs ==
  { [title |-> "t1", description |-> "d1", status |-> Absent, priority |-> Absent],
    [title |-> "t1", description |-> None, status |-> "Pending", priority |-> Absent],
    [title |-> "t2", description |-> "d1", status |-> Absent, priority |-> "Low"],
    [title |-> "t2", description |-> "d1", status |-> "Completed", priority |-> "High"] }

CredentialForms == [username : Usernames, password : Passwords]

RegisterForms == [username : Usernames, password1 : {"pw1"}, password2 : Passwords]

NoData == [kind |-> "none"]

----------------------------------------------------------------------------
\* URL configuration

Reverse(name, pk) ==
  CASE name = "task" -> <<>>
    [] name = "tasks-detail" -> <<"task", pk>>
    [] name = "task-create" -> <<"task-create">>
    [] name = "task-update" -> <<"task-update", pk>>
    [] name = "task-delete" -> <<"task-delete", pk>>
    [] name = "login" -> <<"login">>
    [] name = "logout" -> <<"logout">>
    [] name = "register" -> <<"register">>

RouteOf(path) ==
  IF Len(path) = 0 THEN "task"
  ELSE IF path[1] = "task" THEN "tasks-detail"
  ELSE path[1]

PkOf(path) == path[2]

\* A request as a view sees it; user is request.user, the identity the
\* client's session is bound to when the request arrives.
Request(c, m, path, data) ==
  [client |-> c, method |-> m, path |-> path, data |-> data, user |-> session[c]]

NoRequest ==
  [client |-> "-", method |-> "-", path |-> <<"-">>, data |-> NoData,
   user |-> AnonymousUser]

\* A direct call of the model layer, which is no HTTP request.
ModelCall(kw) ==
  [client |-> "-", method |-> "-", path |-> <<"Task.objects.create">>,
   data |-> kw, user |-> AnonymousUser]

----------------------------------------------------------------------------
\* Responses

Render(body) == [status |-> 200, to |-> None, next |-> None, body |-> body]

Redirect(name) == [status |-> 302, to |-> name, next |-> None, body |-> None]

Http404 == [status |-> 404, to |-> None, next |-> None, body |-> None]

MethodNotAllowed == [status |-> 405, to |-> None, next |-> None, body |-> None]

----------------------------------------------------------------------------
\* The Task model

TaskInitPending(kw) ==
  [title |-> kw.title,
   description |-> kw.description,
   status |-> IF kw.status = Absent THEN "Pending" ELSE kw.status,
   priority |-> IF kw.priority = Absent THEN PriorityDefault ELSE kw.priority]

\* Task(**kw): a field that is not given takes the default the model declares.
TaskInit(kw) ==
  [title |-> kw.title,
   description |-> kw.description,
   status |-> IF kw.status = Absent THEN StatusDefault ELSE kw.status,
   priority |-> IF kw.priority = Absent THEN PriorityDefault ELSE kw.priority]

\* INSERT of a new row: the store assigns the primary key, auto_now_add the
\* created timestamp.
InsertRow(pk, owner, fields, t) ==
  [id |-> pk, user |-> owner, title |-> fields.title,
   description |-> fields.description, status |-> fields.status,
   priority |-> fields.priority, created |-> t]

TaskIds == {tasks[i].id : i \in 1..Len(tasks)}

\* Task.objects.get(pk=pk); the callers check TaskIds first (Http404).
GetObject(pk) == tasks[CHOOSE i \in 1..Len(tasks) : tasks[i].id = pk]

\* The model form of TaskCreate and TaskUpdate: the four fields named by the
\* view; title, status and priority are required (blank=False), status and
\* priority must be one of their declared choices.
TaskFormIsValid(data) ==
  /\ data.title # ""
  /\ data.status \in STATUS_CHOICES
  /\ data.priority \in PRIORITY_CHOICES

CleanedData(data) ==
  [title |-> data.title, description |-> data.description,
   status |-> data.status, priority |-> data.priority]

InstanceUserFromBody(data, requestUser) ==
  IF data.user # AnonymousUser THEN data.user ELSE requestUser

\* form.instance.user = self.request.user
InstanceUser(data, requestUser) == requestUser

UpdateRowTouch(t, cleaned) ==
  [t EXCEPT !.title = cleaned.title, !.description = cleaned.description,
            !.status = cleaned.status, !.priority = cleaned.priority,
            !.created = now]

\* UpdateView.form_valid: form.save() writes the form's fields to the row.
UpdateRow(t, cleaned) ==
  [t EXCEPT !.title = cleaned.title, !.description = cleaned.description,
            !.status = cleaned.status, !.priority = cleaned.priority]

UpdateObject(rows, pk, cleaned) ==
  [i \in 1..Len(rows) |->
     IF rows[i].id = pk THEN UpdateRow(rows[i], cleaned) ELSE rows[i]]

DeleteObjectFirst(rows, pk) == Tail(rows)

\* DeleteView.form_valid: self.object.delete()
DeleteObject(rows, pk) == SelectSeq(rows, LAMBDA t : t.id # pk)

FilterByUserAll(rows, u) == rows

\* context['task'].filter(user=self.request.user)
FilterByUser(rows, u) == SelectSeq(rows, LAMBDA t : t.user = u)

----------------------------------------------------------------------------
\* Authentication

IsAuthenticated(c) == session[c] # AnonymousUser

HandleNoPermissionHome(path) ==
  [status |-> 302, to |-> "login", next |-> <<>>, body |-> None]

\* LoginRequiredMixin.handle_no_permission: redirect_to_login(full path)
HandleNoPermission(path) ==
  [status |-> 302, to |-> "login", next |-> path, body |-> None]

AuthenticateAnyPassword(username, password) ==
  LET m == {i \in 1..Len(users) : users[i].username = username}
  IN IF m = {} THEN AnonymousUser ELSE users[CHOOSE i \in m : TRUE].id

\* authenticate(username, password): the id of the matching user, if any.
Authenticate(username, password) ==
  LET m == {i \in 1..Len(users) :
              users[i].username = username /\ users[i].password = password}
  IN IF m = {} THEN AnonymousUser ELSE users[CHOOSE i \in m : TRUE].id

UserCreationFormIsValidNoUnique(data) == data.password1 = data.password2

\* UserCreationForm.is_valid: the username is not in use and the two
\* passwords are equal.
UserCreationFormIsValid(data) ==
  /\ \A i \in 1..Len(users) : users[i].username # data.username
  /\ data.password1 = data.password2

RedirectsAuthenticatedAnyMethod(method, c) == IsAuthenticated(c)

\* UserRegister.get overrides only GET: an authenticated GET is redirected.
RedirectsAuthenticated(method, c) == method = "GET" /\ IsAuthenticated(c)

----------------------------------------------------------------------------
Init ==
  /\ users = <<>>
  /\ tasks = <<>>
  /\ nextId = 1
  /\ now = 0
  /\ session = [c \in Clients |-> AnonymousUser]
  /\ deleted = {}
  /\ req = NoRequest
  /\ resp = Render(None)

\* UserLogin (LoginView, redirect_authenticated_user = False)
UserLogin(c, m, data) ==
  /\ m \in {"GET", "POST"}
  /\ req' = Request(c, m, Reverse("login", 0), data)
  /\ IF m = "GET" \/ Authenticate(data.username, data.password) = AnonymousUser
       THEN /\ resp' = Render(None)
            /\ session' = session
       ELSE /\ session' = [session EXCEPT
                             ![c] = Authenticate(data.username, data.password)]
            /\ resp' = Redirect("task")
  /\ UNCHANGED <<users, tasks, nextId, now, deleted>>

\* The logout route: ends the session, sends the client to the login page.
Logout(c) ==
  /\ req' = Request(c, "GET", Reverse("logout", 0), NoData)
  /\ session' = [session EXCEPT ![c] = AnonymousUser]
  /\ resp' = Redirect("login")
  /\ UNCHANGED <<users, tasks, nextId, now, deleted>>

\* UserRegister (FormView over UserCreationForm)
UserRegister(c, m, data) ==
  LET uid == Len(users) + 1 IN
  /\ m \in {"GET", "POST"}
  /\ req' = Request(c, m, Reverse("register", 0), data)
  /\ IF RedirectsAuthenticated(m, c)
       THEN /\ resp' = Redirect("task")
            /\ UNCHANGED <<users, session>>
       ELSE IF m = "GET" \/ ~UserCreationFormIsValid(data)
       THEN /\ resp' = Render(None)
            /\ UNCHANGED <<users, session>>
       ELSE /\ Len(users) < MaxUsers
            /\ users' = Append(users, [id |-> uid, username |-> data.username,
                                       password |-> data.password1])
            /\ session' = [session EXCEPT ![c] = uid]
            /\ resp' = Redirect("register")
  /\ UNCHANGED <<tasks, nextId, now, deleted>>

\* TaskList (LoginRequiredMixin, ListView)
TaskList(c, m) ==
  LET q == Request(c, m, Reverse("task", 0), NoData) IN
  /\ m \in {"GET", "POST"}
  /\ req' = q
  /\ resp' = IF ~IsAuthenticated(c) THEN HandleNoPermission(q.path)
             ELSE IF m = "POST" THEN MethodNotAllowed
             ELSE Render(FilterByUser(tasks, session[c]))
  /\ UNCHANGED <<users, tasks, nextId, now, session, deleted>>

\* TaskDetail (LoginRequiredMixin, DetailView)
TaskDetail(c, m, pk) ==
  LET q == Request(c, m, Reverse("tasks-detail", pk), NoData) IN
  /\ m \in {"GET", "POST"}
  /\ req' = q
  /\ resp' = IF ~IsAuthenticated(c) THEN HandleNoPermission(q.path)
             ELSE IF m = "POST" THEN MethodNotAllowed
             ELSE IF PkOf(q.path) \notin TaskIds THEN Http404
             ELSE Render(GetObject(PkOf(q.path)))
  /\ UNCHANGED <<users, tasks, nextId, now, session, deleted>>

\* TaskCreate (LoginRequiredMixin, CreateView)
TaskCreate(c, m, data) ==
  LET q == Request(c, m, Reverse("task-create", 0), data) IN
  /\ m \in {"GET", "POST"}
  /\ req' = q
  /\ IF ~IsAuthenticated(c)
       THEN /\ resp' = HandleNoPermission(q.path)
            /\ UNCHANGED <<tasks, nextId, now>>
       ELSE IF m = "GET" \/ ~TaskFormIsValid(data)
       THEN /\ resp' = Render(None)
            /\ UNCHANGED <<tasks, nextId, now>>
       ELSE /\ nextId <= MaxTasks
            /\ now' = now + 1
            /\ tasks' = Append(tasks,
                 InsertRow(nextId, InstanceUser(data, session[c]),
                           TaskInit(CleanedData(data)), now'))
            /\ nextId' = nextId + 1
            /\ resp' = Redirect("task")
  /\ UNCHANGED <<users, session, deleted>>

\* TaskUpdate (LoginRequiredMixin, UpdateView)
TaskUpdate(c, m, pk, data) ==
  LET q == Request(c, m, Reverse("task-update", pk), data) IN
  /\ m \in {"GET", "POST"}
  /\ req' = q
  /\ IF ~IsAuthenticated(c)
       THEN /\ resp' = HandleNoPermission(q.path)
            /\ tasks' = tasks
       ELSE IF PkOf(q.path) \notin TaskIds
       THEN /\ resp' = Http404
            /\ tasks' = tasks
       ELSE IF m = "GET" \/ ~TaskFormIsValid(data)
       THEN /\ resp' = Render(GetObject(PkOf(q.path)))
            /\ tasks' = tasks
       ELSE /\ tasks' = UpdateObject(tasks, PkOf(q.path), CleanedData(data))
            /\ resp' = Redirect("task")
  /\ UNCHANGED <<users, nextId, now, session, deleted>>

\* TaskDelete (LoginRequiredMixin, DeleteView)
TaskDelete(c, m, pk) ==
  LET q == Request(c, m, Reverse("task-delete", pk), NoData) IN
  /\ m \in {"GET", "POST"}
  /\ req' = q
  /\ IF ~IsAuthenticated(c)
       THEN /\ resp' = HandleNoPermission(q.path)
            /\ UNCHANGED <<tasks, deleted>>
       ELSE IF PkOf(q.path) \notin TaskIds
       THEN /\ resp' = Http404
            /\ UNCHANGED <<tasks, deleted>>
       ELSE IF m = "GET"
       THEN /\ resp' = Render(GetObject(PkOf(q.path)))
            /\ UNCHANGED <<tasks, deleted>>
       ELSE /\ tasks' = DeleteObject(tasks, PkOf(q.path))
            /\ deleted' = deleted \cup {PkOf(q.path)}
            /\ resp' = Redirect("task")
  /\ UNCHANGED <<users, nextId, now, session>>

\* Task.objects.create(user=..., **kw), as the tests populate the store.
ObjectsCreate(u, kw) ==
  /\ u \in 1..Len(users)
  /\ nextId <= MaxTasks
  /\ now' = now + 1
  /\ tasks' = Append(tasks, InsertRow(nextId, u, TaskInit(kw), now'))
  /\ nextId' = nextId + 1
  /\ req' = ModelCall(kw)
  /\ resp' = Render(None)
  /\ UNCHANGED <<users, session, deleted>>

Methods == {"GET", "POST"}

Pks == 1..MaxTasks

\* The body a request of method m carries: one of forms for a POST, none for a GET.
Bodies(m, forms) == IF m = "POST" THEN forms ELSE {NoData}

Next ==
  \/ \E c \in Clients, m \in Methods :
       \E d \in Bodies(m, CredentialForms) : UserLogin(c, m, d)
  \/ \E c \in Clients : Logout(c)
  \/ \E c \in Clients, m \in Methods :
       \E d \in Bodies(m, RegisterForms) : UserRegister(c, m, d)
  \/ \E c \in Clients, m \in Methods : TaskList(c, m)
  \/ \E c \in Clients, m \in Methods, pk \in Pks : TaskDetail(c, m, pk)
  \/ \E c \in Clients, m \in Methods :
       \E d \in Bodies(m, TaskForms) : TaskCreate(c, m, d)
  \/ \E c \in Clients, m \in Methods, pk \in Pks :
       \E d \in Bodies(m, TaskForms) : TaskUpdate(c, m, pk, d)
  \/ \E c \in Clients, m \in Methods, pk \in Pks : TaskDelete(c, m, pk)
  \/ \E u \in 1..MaxUsers, kw \in CreateKwargs : ObjectsCreate(u, kw)

Spec == Init /\ [][Next]_vars

----------------------------------------------------------------------------
\* Properties

Range(seq) == {seq[i] : i \in 1..Len(seq)}

ProtectedRoutes ==
  {"task", "tasks-detail", "task-create", "task-update", "task-delete"}

ByIdRoutes == {"tasks-detail", "task-update", "task-delete"}

\* C1: no detail, update or delete request made under the session of one
\* user returns, changes or removes a task whose owner is another user.
OwnerOnlyAccess ==
  [][ (/\ RouteOf(req'.path) \in ByIdRoutes
       /\ session[req'.client] # AnonymousUser)
      => \A t \in Range(tasks) :
            t.user # session[req'.client]
            => /\ t \in Range(tasks')
               /\ resp'.status = 200 => resp'.body # t ]_vars

\* C2: a task added by the create view is owned by the identity of the
\* session that issued the request, whatever owner value the body carries,
\* and no step changes the owner of a stored task.
OwnerIsCreator ==
  [][ /\ RouteOf(req'.path) = "task-create"
         => \A t \in Range(tasks') :
               t.id \notin TaskIds => t.user = session[req'.client]
      /\ \A i \in 1..Len(tasks), j \in 1..Len(tasks') :
            tasks[i].id = tasks'[j].id => tasks'[j].user = tasks[i].user ]_vars

CreatedWithForeignOwnerInBody ==
  /\ RouteOf(req.path) = "task-create"
  /\ req.method = "POST"
  /\ resp = Redirect("task")
  /\ req.data.user # AnonymousUser
  /\ req.data.user # req.user
  /\ \E t \in Range(tasks) : t.id = nextId - 1 /\ t.user = req.user

\* C3: the list view answers an authenticated GET with exactly the stored
\* tasks whose owner is the requesting identity, in creation order.
ListExactlyOwn ==
  (/\ RouteOf(req.path) = "task"
   /\ req.method = "GET"
   /\ req.user # AnonymousUser)
  => /\ resp.status = 200
     /\ \A i \in 1..Len(resp.body) :
          resp.body[i] \in Range(tasks) /\ resp.body[i].user = req.user
     /\ \A t \in Range(tasks) :
          t.user = req.user => \E i \in 1..Len(resp.body) : resp.body[i] = t
     /\ \A i, j \in 1..Len(resp.body) :
          i < j => resp.body[i].created < resp.body[j].created

ListExcludesOthers ==
  /\ RouteOf(req.path) = "task"
  /\ req.method = "GET"
  /\ req.user # AnonymousUser
  /\ resp.status = 200
  /\ Len(resp.body) = 1
  /\ Len(tasks) = 2
  /\ \E t \in Range(tasks) : t.user # req.user

\* C4: a request without a session to list, detail, create, update or delete,
\* GET or POST, is answered with a redirect to the login page whose next
\* parameter is the requested path, and changes nothing stored.
UnauthenticatedRedirects ==
  [][ (/\ RouteOf(req'.path) \in ProtectedRoutes
       /\ session[req'.client] = AnonymousUser)
      => /\ resp'.status = 302
         /\ resp'.to = "login"
         /\ resp'.next = req'.path
         /\ tasks' = tasks
         /\ users' = users
         /\ nextId' = nextId
         /\ session' = session ]_vars

UnauthenticatedUpdateRedirected ==
  /\ req.path = <<"task-update", 1>>
  /\ req.method = "POST"
  /\ req.user = AnonymousUser
  /\ TaskFormIsValid(req.data)
  /\ resp.status = 302
  /\ resp.next = <<"task-update", 1>>
  /\ 1 \in TaskIds

\* C5: a successful update of an existing task sets its title, description,
\* status and priority to the submitted values, keeps its id, created and
\* owner, and leaves every other task as it was.
UpdateChangesOnlyEditableFields ==
  [][ (/\ RouteOf(req'.path) = "task-update"
       /\ req'.method = "POST"
       /\ resp'.status = 302
       /\ resp'.to = "task")
      => /\ req'.path[2] \in TaskIds
         /\ Len(tasks') = Len(tasks)
         /\ \A i \in 1..Len(tasks) :
              IF tasks[i].id = req'.path[2]
                THEN /\ tasks'[i].title = req'.data.title
                     /\ tasks'[i].description = req'.data.description
                     /\ tasks'[i].status = req'.data.status
                     /\ tasks'[i].priority = req'.data.priority
                     /\ tasks'[i].id = tasks[i].id
                     /\ tasks'[i].created = tasks[i].created
                     /\ tasks'[i].user = tasks[i].user
                ELSE tasks'[i] = tasks[i] ]_vars

UpdatedOlderTask ==
  /\ RouteOf(req.path) = "task-update"
  /\ req.method = "POST"
  /\ resp = Redirect("task")
  /\ Len(tasks) = 2
  /\ \E t \in Range(tasks) :
       /\ t.id = req.path[2]
       /\ t.created < now
       /\ t.title = req.data.title
       /\ t.status = req.data.status

\* C6: a deleted task is out of the store for good: its id is never given
\* to a later task, every later authenticated get, update or delete of that
\* id is answered NotFound, and a delete leaves the other tasks as they were.
DeletedStaysGone ==
  /\ [](deleted \cap TaskIds = {})
  /\ [][ /\ (/\ RouteOf(req'.path) \in ByIdRoutes
             /\ session[req'.client] # AnonymousUser
             /\ RouteOf(req'.path) = "tasks-detail" => req'.method = "GET"
             /\ req'.path[2] \in deleted)
            => resp'.status = 404 /\ tasks' = tasks
         /\ (/\ RouteOf(req'.path) = "task-delete"
             /\ req'.method = "POST"
             /\ resp'.status = 302
             /\ resp'.to = "task")
            => /\ req'.path[2] \in TaskIds
               /\ req'.path[2] \notin {tasks'[i].id : i \in 1..Len(tasks')}
               /\ \A t \in Range(tasks) :
                    t.id # req'.path[2] => t \in Range(tasks')
               /\ Len(tasks') = Len(tasks) - 1 ]_vars

GetAfterDeleteNotFound ==
  /\ RouteOf(req.path) = "tasks-detail"
  /\ req.method = "GET"
  /\ req.user # AnonymousUser
  /\ req.path[2] \in deleted
  /\ resp.status = 404
  /\ \E t \in Range(tasks) : t.id > req.path[2]

\* C7: a registration whose two passwords differ or whose username is in
\* use creates no user, changes no user, task or session, and usernames are
\* unique in every state.
FailedRegisterChangesNothing ==
  /\ [](\A i, j \in 1..Len(users) :
          users[i].username = users[j].username => i = j)
  /\ [][ (/\ RouteOf(req'.path) = "register"
          /\ req'.method = "POST"
          /\ \/ req'.data.password1 # req'.data.password2
             \/ \E i \in 1..Len(users) : users[i].username = req'.data.username)
         => /\ users' = users
            /\ tasks' = tasks
            /\ session' = session
            /\ resp'.status = 200 ]_vars

DuplicateUsernameRejected ==
  /\ RouteOf(req.path) = "register"
  /\ req.method = "POST"
  /\ req.data.password1 = req.data.password2
  /\ \E i \in 1..Len(users) : users[i].username = req.data.username
  /\ Len(users) = 1
  /\ resp.status = 200

\* C8: the session is bound by a login with the credentials of a user and by
\* a registration that creates a user, to that user; a login with bad
\* credentials binds nothing; logout leaves no session bound; no other
\* request changes the session; without a session every protected route
\* redirects to the login page.
SessionFollowsAuthRequests ==
  [][ LET route == RouteOf(req'.path)
          matches == {i \in 1..Len(users) :
                        /\ users[i].username = req'.data.username
                        /\ users[i].password = req'.data.password}
          loginPost == route = "login" /\ req'.method = "POST"
          registered == /\ route = "register"
                        /\ req'.method = "POST"
                        /\ Len(users') = Len(users) + 1
      IN /\ (loginPost /\ matches # {})
            => \E i \in matches : session'[req'.client] = users[i].id
         /\ (loginPost /\ matches = {})
            => session' = session /\ resp'.status = 200
         /\ route = "logout"
            => session'[req'.client] = AnonymousUser /\ resp' = Redirect("login")
         /\ registered
            => /\ users'[Len(users')].username = req'.data.username
               /\ session'[req'.client] = users'[Len(users')].id
         /\ (~loginPost /\ route # "logout" /\ ~registered)
            => session' = session
         /\ (route \in ProtectedRoutes /\ session[req'.client] = AnonymousUser)
            => resp'.status = 302 /\ resp'.to = "login" ]_vars

BadPasswordKeepsAnonymous ==
  /\ RouteOf(req.path) = "login"
  /\ req.method = "POST"
  /\ \E i \in 1..Len(users) :
       /\ users[i].username = req.data.username
       /\ users[i].password # req.data.password
  /\ req.user = AnonymousUser
  /\ session[req.client] = AnonymousUser
  /\ resp.status = 200

\* C9: a task created with no status and no priority given has priority
\* Medium and status Incomplete, which is none of the declared status
\* choices; a status or priority given from the declared choices is stored as
\* given, by the model layer and by the create view.
CreateDefaults ==
  /\ RouteOf(req.path) = "Task.objects.create"
     => LET t == tasks[Len(tasks)] IN
        /\ t.id = nextId - 1
        /\ req.data.status = Absent
           => t.status = "Incomplete" /\ t.status \notin STATUS_CHOICES
        /\ req.data.priority = Absent => t.priority = "Medium"
        /\ req.data.status \in STATUS_CHOICES => t.status = req.data.status
        /\ req.data.priority \in PRIORITY_CHOICES => t.priority = req.data.priority
  /\ (/\ RouteOf(req.path) = "task-create"
      /\ req.method = "POST"
      /\ resp = Redirect("task"))
     => LET t == tasks[Len(tasks)] IN
        /\ t.id = nextId - 1
        /\ req.data.status \in STATUS_CHOICES /\ t.status = req.data.status
        /\ req.data.priority \in PRIORITY_CHOICES /\ t.priority = req.data.priority

CreatedWithDefaults ==
  /\ RouteOf(req.path) = "Task.objects.create"
  /\ req.data.status = Absent
  /\ req.data.priority = Absent
  /\ tasks[Len(tasks)].status = "Incomplete"
  /\ tasks[Len(tasks)].priority = "Medium"

\* C10: under a valid session a GET of register creates no user and keeps
\* the session, while a POST of register is processed: with a new username
\* and equal passwords it creates that user and rebinds the session to it.
RegisterShortCircuitIsGetOnly ==
  [][ (/\ RouteOf(req'.path) = "register"
       /\ session[req'.client] # AnonymousUser)
      => /\ req'.method = "GET"
            => /\ users' = users
               /\ session' = session
               /\ resp' = Redirect("task")
         /\ (/\ req'.method = "POST"
             /\ req'.data.password1 = req'.data.password2
             /\ \A i \in 1..Len(users) : users[i].username # req'.data.username)
            => /\ Len(users') = Len(users) + 1
               /\ SubSeq(users', 1, Len(users)) = users
               /\ users'[Len(users')].username = req'.data.username
               /\ session'[req'.client] = users'[Len(users')].id
               /\ session'[req'.client] # session[req'.client] ]_vars

RegisteredWhileLoggedIn ==
  /\ RouteOf(req.path) = "register"
  /\ req.method = "POST"
  /\ req.user # AnonymousUser
  /\ resp = Redirect("register")
  /\ session[req.client] # req.user
  /\ users[session[req.client]].username = req.data.username

====
